---- MODULE Spec2Model ----
(***************************************************************************)
(* Lightning Import: the batch import engine of                            *)
(* lightning_import/doctype/lightning_upload/lightning_upload.py.          *)
(*                                                                         *)
(* One Lightning Upload job (one document), its persisted fields, the      *)
(* background queue, the executions of process_import_queue, the callers   *)
(* of start_import, the progress cache and the target table.               *)
(***************************************************************************)
EXTENDS Integers, Sequences, FiniteSets, TLC

(***************************************************************************)
(* Bounds of the model.                                                    *)
(***************************************************************************)
\* longest CSV file (data rows) of a job
MaxRows == 2
\* largest configured batch size (Lightning Upload Settings.batch_size)
MaxBatch == 2
\* number of start_import requests made on the job
MaxStarts == 2
\* number of executions of process_import_queue the worker takes from the queue
MaxExec == 2
\* longest header line given to auto_map_and_validate
MaxHeaders == 2
\* number of export_error_rows calls made on the job
MaxExports == 2
\* longest batch handed to insert_records when it is checked on its own
MaxBatchRows == 3
\* UPDATE_CHUNK_SIZE of insert_records; 1000 in the source (lines 194, 213),
\* scaled down so that one batch spans several update sub-chunks
UPDATE_CHUNK_SIZE == 2

(***************************************************************************)
(* Python values: None, str and int, with Python's truthiness.             *)
(***************************************************************************)
NoneV == [tag |-> "none", s |-> "", n |-> 0]
StrV(x) == [tag |-> "str", s |-> x, n |-> 0]
IntV(k) == [tag |-> "int", s |-> "", n |-> k]
\* a datetime.date, named by its ISO text
DateV(x) == [tag |-> "date", s |-> x, n |-> 0]

Truthy(v) == \/ v.tag = "str" /\ v.s # ""
             \/ v.tag = "int" /\ v.n # 0
             \/ v.tag = "date"

\* dict.get(f) with the default None
Get(d, f) == IF f \in DOMAIN d THEN d[f] ELSE NoneV

\* d[f] = v on a dict (adds the key when absent)
Put(d, f, v) == [g \in (DOMAIN d) \cup {f} |-> IF g = f THEN v ELSE d[g]]

\* the decimal literals that occur in the CSV values of the model
IntLiteral == ("0" :> 0) @@ ("7" :> 7) @@ ("30" :> 30)

\* int(value) raises ValueError exactly when this is FALSE
IsIntLiteral(v) == v.tag = "int" \/ (v.tag = "str" /\ v.s \in DOMAIN IntLiteral)

\* int(value)
PyInt(v) == IF v.tag = "int" THEN v ELSE IntV(IntLiteral[v.s])

\* the date texts that occur in the CSV values of the model
DateLiteral == {"2024-01-31"}

\* frappe.utils.getdate(value) raises exactly when this is FALSE
IsDateLiteral(v) == v.tag = "date" \/ (v.tag = "str" /\ v.s \in DateLiteral)

\* frappe.utils.getdate(value): a datetime.date
GetDate(v) == DateV(v.s)

\* frappe.utils.cstr: None -> "", str unchanged, int -> its decimal text
Cstr(v) == CASE v.tag = "none" -> ""
             [] v.tag = "str" -> v.s
             [] v.tag = "date" -> v.s
             [] OTHER -> ToString(v.n)

\* ", ".join(seq)
RECURSIVE JoinComma(_)
JoinComma(seq) ==
    IF seq = <<>> THEN ""
    ELSE IF Len(seq) = 1 THEN seq[1]
    ELSE seq[1] \o ", " \o JoinComma(Tail(seq))

Min(a, b) == IF a < b THEN a ELSE b

(***************************************************************************)
(* The target record type (frappe.get_meta) and the session.               *)
(***************************************************************************)
\* meta.fields of the target DocType, in schema order
MetaFields == <<"email", "age", "joined">>
FieldType == [email |-> "Data", age |-> "Int", joined |-> "Date"]
SessionUser == StrV("Administrator")
NowV == StrV("now")

VARIABLES
    \* ---- configuration of the job document and of the site
    reqd,            \* the fields of MetaFields with reqd = 1
    import_type,     \* doc.import_type
    update_on_field, \* doc.update_on_field (a CSV column name, "" when unset)
    batch_size,      \* Lightning Upload Settings.batch_size
    hook_rejects,    \* emails a registered lightning_import_validate_row hook rejects
    csv_rows,        \* the data rows of doc.csv_file (csv.DictReader)
    \* ---- persisted state
    db,              \* the Lightning Upload document as committed
    store,           \* the rows of the target table `tab<import_doctype>`
    next_id,         \* fresh suffix of generate_docname
    queue,           \* executions enqueued on the "long" queue, not yet started
    cache,           \* frappe.cache() value under the job's progress key
    \* ---- processes
    starts,          \* the start_import requests in flight
    nstarts,         \* start_import requests made so far
    ex,              \* the executions of process_import_queue
    \* ---- observation of the run
    handed,          \* how often each chunk offset was given to insert_records
    call,            \* the insert_records call made last: its input and result
    \* ---- the other endpoints
    files,           \* the error files saved by generate_error_file, in order
    exported,        \* the export_error_rows calls made: what each saw and returned
    automap          \* an auto_map_and_validate call: its input and its result

vars == <<reqd, import_type, update_on_field, batch_size, hook_rejects, csv_rows,
          db, store, next_id, queue, cache, starts, nstarts, ex, handed, call,
          files, exported, automap>>

(***************************************************************************)
(* insert_records, step 1: preparation of the rows (lines 118-157).        *)
(***************************************************************************)
\* required_fields, in schema order (line 116)
required_fields == SelectSeq(MetaFields, LAMBDA f : f \in reqd)

\* the fields of a row whose coercion raises ValueError (lines 126-136)
CoerceFails(row) ==
    {f \in DOMAIN row : /\ f \in DOMAIN FieldType
                        /\ Truthy(row[f])
                        /\ \/ FieldType[f] = "Int" /\ ~IsIntLiteral(row[f])
                           \/ FieldType[f] = "Date" /\ ~IsDateLiteral(row[f])}

\* converted_data of a row whose coercion succeeds (lines 122-138)
Convert(row) ==
    [f \in DOMAIN row |->
        IF f \in DOMAIN FieldType
        THEN IF Truthy(row[f])
             THEN IF FieldType[f] = "Int" THEN PyInt(row[f])
                  ELSE IF FieldType[f] = "Date" THEN GetDate(row[f])
                  ELSE row[f]
             ELSE NoneV
        ELSE row[f]]

\* missing_fields (line 140): required fields whose converted value is falsy
MissingFields(conv) == SelectSeq(required_fields, LAMBDA f : ~Truthy(Get(conv, f)))

\* the audit fields a row does not carry (lines 144-147)
WithDefaults(conv) ==
    [f \in (DOMAIN conv) \cup {"owner", "modified_by", "creation", "modified"} |->
        IF f \in DOMAIN conv THEN conv[f]
        ELSE IF f \in {"owner", "modified_by"} THEN SessionUser ELSE NowV]

\* validate_row_data (lines 326-330): a registered hook raises for the row
HookRejects(data) == Cstr(Get(data, "email")) \in hook_rejects

InvalidValueError(f, v) == "Invalid value for field " \o f \o ": " \o Cstr(v)
MissingError(fs) == "Missing required fields: " \o JoinComma(fs)
HookError == "Rejected by lightning_import_validate_row"

\* the body of the per-row try (lines 121-154)
PrepareRow(row) ==
    IF CoerceFails(row) # {}
    THEN LET f == CHOOSE g \in CoerceFails(row) : TRUE
         IN  [ok |-> FALSE, data |-> row, error |-> InvalidValueError(f, row[f])]
    ELSE LET conv == Convert(row)
         IN  IF MissingFields(conv) # <<>>
             THEN [ok |-> FALSE, data |-> row, error |-> MissingError(MissingFields(conv))]
             ELSE IF HookRejects(WithDefaults(conv))
             THEN [ok |-> FALSE, data |-> row, error |-> HookError]
             ELSE [ok |-> TRUE, data |-> WithDefaults(conv), error |-> ""]

\* records_to_process (line 151), in row order
RECURSIVE RecordsToProcess(_)
RecordsToProcess(rows) ==
    IF rows = <<>> THEN <<>>
    ELSE LET p == PrepareRow(Head(rows))
         IN  (IF p.ok THEN <<p.data>> ELSE <<>>) \o RecordsToProcess(Tail(rows))

\* failed_rows after step 1 (line 154), in row order
RECURSIVE PrepareFailures(_)
PrepareFailures(rows) ==
    IF rows = <<>> THEN <<>>
    ELSE LET p == PrepareRow(Head(rows))
         IN  (IF p.ok THEN <<>> ELSE <<[row |-> Head(rows), error |-> p.error]>>)
             \o PrepareFailures(Tail(rows))

(***************************************************************************)
(* The target table and the bulk statements (lines 226-286).               *)
(***************************************************************************)
StoreFields == {"name", "email", "age"}

\* generate_docname (lines 99-107): a fresh identifier
NewName(k) == StrV("Doc-" \o ToString(k))

\* the row of the table an INSERT writes for a record (lines 231-237)
InsertedDoc(r) ==
    [name |-> Cstr(Get(r, "name")), email |-> Cstr(Get(r, "email")), age |-> Cstr(Get(r, "age"))]

\* _execute_bulk_insert: the table after INSERT ... VALUES of the records
ApplyInsert(st, recs) == st \cup {InsertedDoc(recs[j]) : j \in 1..Len(recs)}

\* the records of an UPDATE that carry a WHEN clause for field f of document d
\* (line 268): an identifier and a value that is not None
WhenClauses(recs, d, f) ==
    {j \in 1..Len(recs) : /\ Truthy(Get(recs[j], "name"))
                          /\ Cstr(Get(recs[j], "name")) = d.name
                          /\ Get(recs[j], f) # NoneV}

\* CASE WHEN ... ELSE `f` END: the first matching WHEN clause, else the old value
UpdatedValue(recs, d, f) ==
    IF WhenClauses(recs, d, f) = {} THEN d[f]
    ELSE LET j == CHOOSE k \in WhenClauses(recs, d, f) :
                      \A m \in WhenClauses(recs, d, f) : k <= m
         IN  Cstr(recs[j][f])

\* _execute_bulk_update issues its statement only when some record carries an
\* identifier (lines 260-275: `modified` is never None, so set_clauses is empty
\* exactly when no record has a name)
UpdateExecutes(recs) == \E j \in 1..Len(recs) : Truthy(Get(recs[j], "name"))

\* the table after the UPDATE ... WHERE name IN (...) of the records
ApplyUpdate(st, recs) ==
    {[name |-> d.name,
      email |-> UpdatedValue(recs, d, "email"),
      age |-> UpdatedValue(recs, d, "age")] : d \in st}

ApplyStatement(st, stmt) ==
    IF stmt.op = "INSERT" THEN ApplyInsert(st, stmt.recs) ELSE ApplyUpdate(st, stmt.recs)

\* the table after the first k statements of a plan have taken effect
RECURSIVE ApplyFirst(_, _, _)
ApplyFirst(st, plan, k) ==
    IF k = 0 \/ plan = <<>> THEN st
    ELSE ApplyFirst(ApplyStatement(st, Head(plan)), Tail(plan), k - 1)

\* range(0, len(recs), UPDATE_CHUNK_SIZE) with recs[i:i + UPDATE_CHUNK_SIZE]
UpdateChunks(recs) ==
    [c \in 1..((Len(recs) + UPDATE_CHUNK_SIZE - 1) \div UPDATE_CHUNK_SIZE) |->
        SubSeq(recs, (c - 1) * UPDATE_CHUNK_SIZE + 1, Min(c * UPDATE_CHUNK_SIZE, Len(recs)))]

\* the UPDATE statements issued for the records, one per sub-chunk that has one
UpdateStatements(recs) ==
    LET chunks == SelectSeq(UpdateChunks(recs), UpdateExecutes)
    IN  [c \in 1..Len(chunks) |-> [op |-> "UPDATE", recs |-> chunks[c]]]

\* the INSERT statement issued for the records (line 228: none for an empty list)
InsertStatements(recs) ==
    IF recs = <<>> THEN <<>> ELSE <<[op |-> "INSERT", recs |-> recs]>>

(***************************************************************************)
(* insert_records, step 2: the fork on the import type (lines 159-225).    *)
(***************************************************************************)
NoKeyError == "Validate On CSV Column not specified for 'Insert and Update' mode."
UnmappedKeyError(col) ==
    "The selected update column '" \o col \o "' is not mapped to any DocType field."
\* the text of the exception a failing statement raises (frappe.db.sql)
StatementError == "(1064, 'statement rejected by the database')"

\* mapping.get(update_on_csv_col) (line 167); "" when absent or unmapped
MappedUpdateField(mapping) ==
    IF update_on_field \in DOMAIN mapping THEN mapping[update_on_field] ELSE ""

\* keys_to_check (line 171): the distinct truthy key values of the records
KeysToCheck(recs, kf) ==
    {Cstr(Get(recs[j], kf)) : j \in {k \in 1..Len(recs) : Truthy(Get(recs[k], kf))}}

\* frappe.get_all(filters={kf: ['in', keys]}) (lines 175-179)
Existing(st, kf, keys) == {d \in st : d[kf] \in keys}

\* a bug: the routing loop tests the record's name, not its key value
KeyFound_ByName(existing, kf, rec) == Cstr(Get(rec, "name")) \in {d[kf] : d \in existing}

\* key_value in existing_docs_map (line 186)
KeyFound(existing, kf, rec) == Cstr(Get(rec, kf)) \in {d[kf] : d \in existing}

\* existing_docs_map[key_value] (lines 180, 187)
ExistingName(existing, kf, rec) ==
    StrV((CHOOSE d \in existing : d[kf] = Cstr(Get(rec, kf))).name)

\* the records after the routing loop (lines 184-191): each carries its name;
\* the k-th record routed to the INSERT takes the k-th fresh identifier
RoutedRecords(recs, existing, kf, nid) ==
    [j \in 1..Len(recs) |->
        IF KeyFound(existing, kf, recs[j])
        THEN Put(recs[j], "name", ExistingName(existing, kf, recs[j]))
        ELSE Put(recs[j], "name",
                 NewName(nid + Cardinality({k \in 1..(j - 1) :
                                               ~KeyFound(existing, kf, recs[k])})))]

\* the records named by generate_docname in "Insert New Records" (lines 206-207)
NamedRecords(recs, nid) ==
    [j \in 1..Len(recs) |-> Put(recs[j], "name", NewName(nid + j - 1))]

\* What one call does up to its bulk statements: the records as they stand
\* when the statements run, the statements in order, the lookups made, the
\* identifiers generated, and the error raised before any statement ("" if none).
WritePlan(doc, recs, st, nid) ==
    LET none == [records |-> recs, statements |-> <<>>, lookups |-> <<>>,
                 to_update |-> <<>>, to_insert |-> <<>>, generated |-> 0, error |-> ""]
    IN
    IF import_type = "Insert and Update Records"
    THEN IF update_on_field = ""
         THEN [none EXCEPT !.error = NoKeyError]
         ELSE IF MappedUpdateField(doc.field_mapping[1]) = ""
         THEN [none EXCEPT !.error = UnmappedKeyError(update_on_field)]
         ELSE LET kf       == MappedUpdateField(doc.field_mapping[1])
                  keys     == KeysToCheck(recs, kf)
                  existing == IF keys = {} THEN {} ELSE Existing(st, kf, keys)
                  routed   == RoutedRecords(recs, existing, kf, nid)
                  upd      == SelectSeq(routed, LAMBDA r : KeyFound(existing, kf, r))
                  ins      == SelectSeq(routed, LAMBDA r : ~KeyFound(existing, kf, r))
              IN  [records    |-> routed,
                   statements |-> UpdateStatements(upd) \o InsertStatements(ins),
                   lookups    |-> IF keys = {} THEN <<>> ELSE <<keys>>,
                   to_update  |-> upd,
                   to_insert  |-> ins,
                   generated  |-> Len(ins),
                   error      |-> ""]
    ELSE IF import_type = "Insert New Records"
    THEN LET named == NamedRecords(recs, nid)
         IN  [none EXCEPT !.records = named,
                          !.statements = InsertStatements(named),
                          !.to_insert = named,
                          !.generated = Len(named)]
    ELSE IF import_type = "Update Existing Records"
    THEN [none EXCEPT !.statements = UpdateStatements(recs), !.to_update = recs]
    ELSE none

\* a bug: the except block marks only the records after the first one
StatementFailures_SkipFirst(records, error) ==
    [j \in 1..(Len(records) - 1) |-> [row |-> records[j + 1], error |-> error]]

\* the entries the except block adds (lines 221-222)
StatementFailures(records, error) ==
    [j \in 1..Len(records) |-> [row |-> records[j], error |-> error]]

\* lines 193-225 once the routing is known: the statements run in order until
\* one raises; `failed` are the entries step 1 left in failed_rows
RunStatements(plan, failed, st, nid, fail) ==
    IF fail > 0 /\ fail <= Len(plan.statements)
    THEN [success_count |-> 0,
          failed_rows   |-> failed \o StatementFailures(plan.records, StatementError),
          store         |-> ApplyFirst(st, plan.statements, fail - 1),
          next_id       |-> nid + plan.generated,
          lookups       |-> plan.lookups,
          executed      |-> SubSeq(plan.statements, 1, fail),
          to_update     |-> plan.to_update,
          to_insert     |-> plan.to_insert,
          raised        |-> StatementError]
    ELSE [success_count |-> Len(plan.to_insert) + Len(plan.to_update),
          failed_rows   |-> failed,
          store         |-> ApplyFirst(st, plan.statements, Len(plan.statements)),
          next_id       |-> nid + plan.generated,
          lookups       |-> plan.lookups,
          executed      |-> plan.statements,
          to_update     |-> plan.to_update,
          to_insert     |-> plan.to_insert,
          raised        |-> ""]

\* a bug: the early return counts the rows that failed as written
NoStatements_CountsRows(recs, failed, st, nid, error) ==
    [success_count |-> Len(failed), failed_rows |-> failed,
     store |-> st, next_id |-> nid, lookups |-> <<>>, executed |-> <<>>,
     to_update |-> <<>>, to_insert |-> <<>>, raised |-> error]

\* the return of line 157 and the except block of lines 219-223 for an error
\* raised before any statement
NoStatements(recs, failed, st, nid, error) ==
    [success_count |-> 0,
     failed_rows   |-> IF error = "" THEN failed
                       ELSE failed \o StatementFailures(recs, error),
     store |-> st, next_id |-> nid, lookups |-> <<>>, executed |-> <<>>,
     to_update |-> <<>>, to_insert |-> <<>>, raised |-> error]

\* step 2 on the prepared records
WriteRecords(plan, recs, failed, st, nid, fail) ==
    IF recs = <<>> THEN NoStatements(recs, failed, st, nid, "")
    ELSE IF plan.error # "" THEN NoStatements(recs, failed, st, nid, plan.error)
    ELSE RunStatements(plan, failed, st, nid, fail)

\* insert_records(rows) of a document `doc`, on table `st`, with `nid` the next
\* fresh identifier; `fail` is the position of the statement that raises (0: none).
\* The result carries the returned dict (success_count, failed_rows) and what
\* the call did to its surroundings.
InsertRecords(doc, rows, st, nid, fail) ==
    WriteRecords(WritePlan(doc, RecordsToProcess(rows), st, nid),
                 RecordsToProcess(rows), PrepareFailures(rows), st, nid, fail)

\* the number of bulk statements the call issues when none of them raises
NumStatements(doc, rows, st, nid) ==
    Len(WritePlan(doc, RecordsToProcess(rows), st, nid).statements)

(***************************************************************************)
(* The CSV file and the field mapping (get_csv_data, get_mapped_data).     *)
(***************************************************************************)
RawRow(id, email, age) == [ID |-> StrV(id), Email |-> StrV(email), Age |-> StrV(age)]

\* data rows a file may hold
RowExisting == RawRow("E1", "a@x.com", "30")
RowNew      == RawRow("", "b@x.com", "7")
RowBadAge   == RawRow("", "b@x.com", "x")
RowZero     == RawRow("", "", "0")
RowNoAge    == RawRow("E1", "c@x.com", "")
\* the email of a document of the table, with another age
RowChanged  == RawRow("", "a@x.com", "7")

\* RowNew in a file that also has a Joined column
RowDated    == [ID |-> StrV(""), Email |-> StrV("b@x.com"), Age |-> StrV("7"),
                Joined |-> StrV("2024-01-31")]

RowKinds == {RowExisting, RowNew, RowBadAge, RowZero, RowNoAge}
\* the rows of the job's file: a row that imports, a row that fails coercion
\* and a row whose email is in the table
JobRowKinds == {RowDated, RowBadAge, RowChanged}

\* field mappings (CSV column -> DocType field, "" for an unmapped column)
MapAll     == [ID |-> "name", Email |-> "email", Age |-> "age"]
MapNoId    == [ID |-> "", Email |-> "email", Age |-> "age"]
MapNoAge   == [ID |-> "", Email |-> "email", Age |-> ""]
MapNoEmail == [ID |-> "", Email |-> "", Age |-> "age"]
MapDated   == [ID |-> "", Email |-> "email", Age |-> "age", Joined |-> "joined"]

\* sequences over S of length at most n
SeqUpTo(S, n) == UNION {[1..k -> S] : k \in 0..n}

\* mapped_row of one raw row (lines 90-95)
MappedRow(mapping, row) ==
    [f \in {mapping[h] : h \in DOMAIN mapping} \ {""} |->
        LET h == CHOOSE c \in DOMAIN mapping : mapping[c] = f
        IN  IF h \in DOMAIN row THEN row[h] ELSE NoneV]

\* get_mapped_data (lines 79-97) of a document whose field_mapping is set
GetMappedData(doc) ==
    [j \in 1..Len(csv_rows) |-> MappedRow(doc.field_mapping[1], csv_rows[j])]

(***************************************************************************)
(* The persisted job document.                                             *)
(***************************************************************************)
NoLog == [kind |-> "none", rows |-> <<>>, text |-> ""]
RowsLog(rows) == [kind |-> "rows", rows |-> rows, text |-> ""]
TextLog(text) == [kind |-> "text", rows |-> <<>>, text |-> text]

\* json.dumps of one value (line 486): None -> null, str -> a string,
\* int -> a number in decimal
JsonValue(v) ==
    CASE v.tag = "none" -> [json |-> "null", text |-> ""]
      [] v.tag = "str" -> [json |-> "string", text |-> v.s]
      [] OTHER -> [json |-> "number", text |-> ToString(v.n)]

\* json.dumps raises TypeError for a value it cannot encode: a datetime.date
JsonSerializable(rows) ==
    \A k \in 1..Len(rows) : \A f \in DOMAIN rows[k].row : rows[k].row[f].tag # "date"

JsonTypeError == "Object of type date is not JSON serializable"

\* json.loads of one value (line 707)
PyValue(j) ==
    CASE j.json = "null" -> NoneV
      [] j.json = "string" -> StrV(j.text)
      [] OTHER -> PyInt(StrV(j.text))

\* json.dumps(all_failed_rows) (line 486): a list of {"row": {...}, "error": "..."}
JsonDumps(rows) ==
    [k \in 1..Len(rows) |->
        [row |-> [f \in DOMAIN rows[k].row |-> JsonValue(rows[k].row[f])],
         error |-> rows[k].error]]

\* a bug: the first entry of the list is lost in decoding
JsonLoads_SkipsFirst(js) ==
    [k \in 1..(Len(js) - 1) |->
        [row |-> [f \in DOMAIN js[k + 1].row |-> PyValue(js[k + 1].row[f])],
         error |-> js[k + 1].error]]

\* json.loads(doc.error_log) (line 707)
JsonLoads(js) ==
    [k \in 1..Len(js) |->
        [row |-> [f \in DOMAIN js[k].row |-> PyValue(js[k].row[f])],
         error |-> js[k].error]]

\* the CSV text generate_error_file writes for non-empty failed_rows (lines
\* 294-305): the header from the keys of the first row, and per failed row its
\* values as csv.writer writes them (None as "", an int in decimal), the error
\* and the 1-based row number
ErrorFile(failed_rows) ==
    [header |-> DOMAIN failed_rows[1].row,
     lines  |-> [k \in 1..Len(failed_rows) |->
                    [cells  |-> [f \in DOMAIN failed_rows[k].row |->
                                    Cstr(failed_rows[k].row[f])],
                     error  |-> failed_rows[k].error,
                     number |-> k]]]

\* a saved error file: its content, who generated it and for which error log
SavedFile(by, log, failed_rows) ==
    [by |-> by, log |-> log, content |-> ErrorFile(failed_rows)]

\* a new Lightning Upload document; fm is <<>> (no mapping) or <<mapping>>
NewDoc(fm) ==
    [status |-> "Draft", total_records |-> 0, successful_records |-> 0,
     failed_records |-> 0, last_processed_row |-> 0, error_log |-> NoLog,
     field_mapping |-> fm, error_file |-> <<>>]

\* the target table before the import
InitialStore == {[name |-> "E1", email |-> "a@x.com", age |-> "30"]}

\* a progress snapshot (the fields of the cache value the claims read)
Snapshot(st, pr, succ, fail) ==
    [status |-> st, progress |-> pr, counted |-> TRUE,
     successful_records |-> succ, failed_records |-> fail]

\* a snapshot written without the two counters (lines 384-389, 555-561, 690)
BareSnapshot(st, pr) ==
    [status |-> st, progress |-> pr, counted |-> FALSE,
     successful_records |-> 0, failed_records |-> 0]

\* no insert_records call made yet
NoCall == <<>>
\* no auto_map_and_validate call made
NoAutoMap == <<>>

NoSnapshot == BareSnapshot("Not Found", 0)
\* initial_progress of start_import (lines 640-647)
QueuedSnapshot == Snapshot("Queued", 0, 0, 0)

(***************************************************************************)
(* start_import (lines 620-683).  A request first loads the document       *)
(* (line 627) and then acts on the copy it loaded; other requests and the  *)
(* workers may run in between.                                             *)
(***************************************************************************)
StartSlots == {1, 2}
IdleStart == [pc |-> "idle", status |-> "", field_mapping |-> <<>>]

\* the `mapping` argument of a request: none, or a mapping to save first
StartMappings == {<<>>, <<MapNoAge>>}

\* line 627: doc = frappe.get_doc("Lightning Upload", docname)
StartLoad(s) ==
    /\ starts[s].pc = "idle"
    /\ \A r \in StartSlots : r < s => starts[r].pc # "idle"
    /\ nstarts < MaxStarts
    /\ starts' = [starts EXCEPT ![s] = [pc |-> "loaded", status |-> db.status,
                                        field_mapping |-> db.field_mapping]]
    /\ nstarts' = nstarts + 1
    /\ UNCHANGED <<reqd, import_type, update_on_field, batch_size, hook_rejects,
                   csv_rows, db, store, next_id, queue, cache, ex, handed, call,
                   files, exported, automap>>

\* the except block (lines 673-683): the status is written back as Draft
StartError(dbnow) ==
    /\ db' = [dbnow EXCEPT !.status = "Draft"]
    /\ UNCHANGED <<queue, cache>>

\* lines 639-671: the Queued snapshot, the status and the enqueue
StartSuccess(dbnow) ==
    /\ cache' = QueuedSnapshot
    /\ db' = [dbnow EXCEPT !.status = "Queued"]
    /\ queue' = queue + 1

\* the document as line 633 leaves it: a given mapping is written at once
WithMapping(m) == IF m # <<>> THEN [db EXCEPT !.field_mapping = m] ELSE db

\* lines 629-683 on the loaded copy, for a request made with mapping m
StartRun(s, m) ==
    /\ starts[s].pc = "loaded"
    /\ IF starts[s].status # "Draft"
       THEN StartError(db)
       ELSE IF m = <<>> /\ starts[s].field_mapping = <<>>
       THEN StartError(db)
       ELSE StartSuccess(WithMapping(m))
    /\ starts' = [starts EXCEPT ![s] = IdleStart]
    /\ UNCHANGED <<reqd, import_type, update_on_field, batch_size, hook_rejects,
                   csv_rows, store, next_id, nstarts, ex, handed, call,
                   files, exported, automap>>

(***************************************************************************)
(* process_import_queue (lines 368-574), run by a worker of the "long"     *)
(* queue.  Every commit ends one step; a step that raises leaves through   *)
(* the except block (lines 546-574).                                       *)
(***************************************************************************)
ExecIds == 1..MaxExec

IdleExec ==
    [pc |-> "idle", doc |-> NewDoc(<<>>), total_rows |-> 0, i |-> 0,
     successful_records |-> 0, failed_records |-> 0, all_failed_rows |-> <<>>,
     error |-> "", written |-> <<>>, final_status |-> "", chunks |-> <<>>]

\* texts of the exceptions that escape the body
SaveError == "save failed"
CacheError == "cache unavailable"
LoadError == "Error accessing file"
ErrorFileError == "error file could not be saved"

\* line 429: min(100, int((i / total_rows) * 100))
Progress(i, total) == Min(100, (i * 100) \div total)

\* lines 491-496
FinalStatus(failed, total) ==
    IF failed = total THEN "Failed"
    ELSE IF failed > 0 THEN "Partial Success"
    ELSE "Completed"

Raise(e, text) == [ex[e] EXCEPT !.pc = "fatal", !.error = text]

OtherVarsOfExec == <<reqd, import_type, update_on_field, batch_size, hook_rejects,
                     csv_rows, starts, nstarts, exported, automap>>

\* lines 376-396: the worker takes the job, loads the document, persists
\* "In Progress" and writes the first snapshot
Begin(e, exc) ==
    /\ ex[e].pc = "idle"
    /\ queue > 0
    \* the queue is served by one worker: executions run one after the other,
    \* and take the execution records in order
    /\ \A f \in ExecIds : f # e => ex[f].pc \in {"idle", "returned"}
    /\ \A f \in ExecIds : f < e => ex[f].pc # "idle"
    /\ queue' = queue - 1
    /\ LET doc  == [db EXCEPT !.status = "In Progress"]
           snap == BareSnapshot("In Progress", 0)
           me   == [ex[e] EXCEPT !.doc = doc, !.written = <<QueuedSnapshot>>]
       IN  CASE exc = "none" ->
                  /\ db' = doc
                  /\ cache' = snap
                  /\ ex' = [ex EXCEPT ![e] = [me EXCEPT !.pc = "load",
                                                 !.written = Append(@, snap)]]
             [] exc = "save" ->
                  /\ ex' = [ex EXCEPT ![e] = [me EXCEPT !.pc = "fatal", !.error = SaveError]]
                  /\ UNCHANGED <<db, cache>>
    /\ UNCHANGED <<store, next_id, handed, call, files>>
    /\ UNCHANGED OtherVarsOfExec

\* lines 397-421: the row set is loaded once and total_records persisted
Load(e, exc) ==
    /\ ex[e].pc = "load"
    /\ CASE exc = "none" ->
              LET total == Len(GetMappedData(ex[e].doc))
                  doc   == [ex[e].doc EXCEPT !.total_records = total]
              IN  /\ db' = doc
                  /\ ex' = [ex EXCEPT ![e] = [@ EXCEPT !.pc = "chunk", !.doc = doc,
                                                 !.total_rows = total, !.i = 0]]
         [] exc = "load" ->
              /\ ex' = [ex EXCEPT ![e] = Raise(e, LoadError)]
              /\ UNCHANGED db
    /\ UNCHANGED <<store, next_id, queue, cache, handed, call, files>>
    /\ UNCHANGED OtherVarsOfExec

\* a bug: last_processed_row is set to the start offset of the batch
AfterBatch_StartOffset(me, result, len) ==
    [me EXCEPT !.successful_records = @ + result.success_count,
               !.failed_records = @ + Len(result.failed_rows),
               !.all_failed_rows = @ \o result.failed_rows,
               !.doc = [@ EXCEPT !.successful_records =
                                     me.successful_records + result.success_count,
                                 !.failed_records =
                                     me.failed_records + Len(result.failed_rows),
                                 !.last_processed_row = me.i],
               !.chunks = Append(@, me.i)]

\* the execution after insert_records returned `result` for the batch at its
\* offset (lines 436-454): counters, failure list and in-memory document
AfterBatch(me, result, len) ==
    [me EXCEPT !.successful_records = @ + result.success_count,
               !.failed_records = @ + Len(result.failed_rows),
               !.all_failed_rows = @ \o result.failed_rows,
               !.doc = [@ EXCEPT !.successful_records =
                                     me.successful_records + result.success_count,
                                 !.failed_records =
                                     me.failed_records + Len(result.failed_rows),
                                 !.last_processed_row = me.i + len],
               !.chunks = Append(@, me.i)]

\* a bug: the snapshot carries the counts of the batch, not the running totals
ChunkSnapshot_BatchCounts(me, after) ==
    Snapshot("In Progress", Progress(me.i, me.total_rows),
             after.successful_records - me.successful_records,
             after.failed_records - me.failed_records)

\* progress_data (lines 458-471)
ChunkSnapshot(me, after) ==
    Snapshot("In Progress", Progress(me.i, me.total_rows),
             after.successful_records, after.failed_records)

\* lines 455-478: save and commit, then the snapshot; `exc` says which of them raises
CommitChunk(e, exc, after, snap) ==
    CASE exc = "none" ->
           /\ db' = after.doc
           /\ cache' = snap
           /\ ex' = [ex EXCEPT ![e] = [after EXCEPT !.i = @ + batch_size,
                                                    !.written = Append(@, snap)]]
      [] exc = "save" ->
           /\ ex' = [ex EXCEPT ![e] = [after EXCEPT !.pc = "fatal", !.error = SaveError]]
           /\ UNCHANGED <<db, cache>>
      [] exc = "cache" ->
           /\ db' = after.doc
           /\ ex' = [ex EXCEPT ![e] = [after EXCEPT !.pc = "fatal", !.error = CacheError]]
           /\ UNCHANGED cache

\* the effects of one pass once insert_records has returned
ChunkEffects(e, exc, batch, result) ==
    /\ store' = result.store
    /\ next_id' = result.next_id
    /\ handed' = [handed EXCEPT ![ex[e].i] = @ + 1]
    /\ CommitChunk(e, exc, AfterBatch(ex[e], result, Len(batch)),
                   ChunkSnapshot(ex[e], AfterBatch(ex[e], result, Len(batch))))

\* csv_data[i:i + batch_size] (line 425)
Batch(me) ==
    SubSeq(GetMappedData(me.doc), me.i + 1, Min(me.i + batch_size, me.total_rows))

\* one pass of the loop (lines 423-478): the batch at offset i is written, the
\* counters are persisted and committed, and the chunk snapshot is written
Chunk(e, exc, fail) ==
    /\ ex[e].pc = "chunk"
    /\ ex[e].i < ex[e].total_rows
    /\ fail <= NumStatements(ex[e].doc, Batch(ex[e]), store, next_id)
    /\ ChunkEffects(e, exc, Batch(ex[e]),
                    InsertRecords(ex[e].doc, Batch(ex[e]), store, next_id, fail))
    /\ UNCHANGED <<queue, call, files>>
    /\ UNCHANGED OtherVarsOfExec

\* lines 480-544: the failure log and the error file, the final status, the
\* final save and the final snapshot
Finish(e, exc) ==
    /\ ex[e].pc = "chunk"
    /\ ex[e].i >= ex[e].total_rows
    /\ LET me     == ex[e]
           \* lines 484-487: doc.error_log = json.dumps(all_failed_rows); doc.save
           logged == IF me.all_failed_rows # <<>>
                     THEN [me.doc EXCEPT !.error_log = RowsLog(JsonDumps(me.all_failed_rows))]
                     ELSE me.doc
           final  == FinalStatus(me.failed_records, me.total_rows)
           doc    == [logged EXCEPT !.status = final]
           snap   == Snapshot(final, 100, me.successful_records, me.failed_records)
       IN  CASE exc = "none" /\ ~JsonSerializable(me.all_failed_rows) ->
                  \* json.dumps (line 486) raises before anything is saved
                  /\ ex' = [ex EXCEPT ![e] = Raise(e, JsonTypeError)]
                  /\ UNCHANGED <<db, cache, files>>
             [] exc = "none" /\ JsonSerializable(me.all_failed_rows) ->
                  \* line 488 writes error_file with set_value; the save of line 509
                  \* then writes every field of the in-memory document
                  /\ db' = doc
                  /\ cache' = snap
                  /\ files' = IF me.all_failed_rows # <<>>
                              THEN Append(files, SavedFile("completion", logged.error_log,
                                                           me.all_failed_rows))
                              ELSE files
                  /\ ex' = [ex EXCEPT ![e] = [me EXCEPT !.pc = "done", !.doc = doc,
                                                 !.final_status = final,
                                                 !.written = Append(@, snap)]]
             [] exc = "errfile" ->
                  /\ me.all_failed_rows # <<>>
                  /\ JsonSerializable(me.all_failed_rows)
                  /\ db' = logged
                  /\ ex' = [ex EXCEPT ![e] = [me EXCEPT !.pc = "fatal", !.doc = logged,
                                                 !.error = ErrorFileError]]
                  /\ UNCHANGED <<cache, files>>
    /\ UNCHANGED <<store, next_id, queue, handed, call>>
    /\ UNCHANGED OtherVarsOfExec

\* the except block (lines 546-574): the document is fetched again, forced to
\* Failed with the exception text as its error log, and a failure snapshot is
\* written; an exception inside the block is swallowed (lines 569-570)
Fatal(e, exc) ==
    /\ ex[e].pc = "fatal"
    /\ LET me   == ex[e]
           doc  == [db EXCEPT !.status = "Failed", !.error_log = TextLog(me.error)]
           snap == BareSnapshot("Failed", 0)
       IN  CASE exc = "none" ->
                  /\ db' = doc
                  /\ cache' = snap
                  /\ ex' = [ex EXCEPT ![e] = [me EXCEPT !.pc = "done", !.doc = doc,
                                                 !.written = Append(@, snap)]]
             [] exc = "save" ->
                  /\ ex' = [ex EXCEPT ![e] = [me EXCEPT !.pc = "done"]]
                  /\ UNCHANGED <<db, cache>>
    /\ UNCHANGED <<store, next_id, queue, handed, call, files>>
    /\ UNCHANGED OtherVarsOfExec

\* the return statements (lines 536-544, 571-574): the worker is free again
Return(e) ==
    /\ ex[e].pc = "done"
    /\ ex' = [ex EXCEPT ![e] = [IdleExec EXCEPT !.pc = "returned"]]
    /\ UNCHANGED <<db, store, next_id, queue, cache, handed, call, files>>
    /\ UNCHANGED OtherVarsOfExec

(***************************************************************************)
(* export_error_rows (lines 695-724).                                      *)
(***************************************************************************)
ExportStatusError == "Error file is only available for Failed or Partial Success imports"
NoLogError == "No error log available"
NoFileError == "No error file could be generated"
\* the text of the JSONDecodeError json.loads raises for a log that is not JSON
JsonError == "Expecting value: line 1 column 1 (char 0)"

ExportFails(message) == [status |-> "error", message |-> message, rows |-> <<>>]

\* a bug: the status of the job is not looked at
ExportResult_NoStatusCheck(doc) ==
    IF doc.error_log.kind = "none" THEN ExportFails(NoLogError)
    ELSE IF doc.error_log.kind = "text" THEN ExportFails(JsonError)
    ELSE IF JsonLoads(doc.error_log.rows) = <<>> THEN ExportFails(NoFileError)
    ELSE [status |-> "success", message |-> "", rows |-> JsonLoads(doc.error_log.rows)]

\* lines 699-712 on the loaded document: the error returned, or the rows the
\* error file is generated from
ExportResult(doc) ==
    IF doc.status \notin {"Failed", "Partial Success"} THEN ExportFails(ExportStatusError)
    ELSE IF doc.error_log.kind = "none" THEN ExportFails(NoLogError)
    ELSE IF doc.error_log.kind = "text" THEN ExportFails(JsonError)
    ELSE IF JsonLoads(doc.error_log.rows) = <<>> THEN ExportFails(NoFileError)
    ELSE [status |-> "success", message |-> "", rows |-> JsonLoads(doc.error_log.rows)]

\* what the call read of the document: its status and its error log
Seen(doc) == [status |-> doc.status, error_log |-> doc.error_log]

\* one call of export_error_rows; generate_error_file saves the file and
\* writes its url to error_file (line 319)
Export ==
    /\ Len(exported) < MaxExports
    /\ LET res == ExportResult(db)
       IN  IF res.status = "success"
           THEN /\ files' = Append(files, SavedFile("export", db.error_log, res.rows))
                /\ db' = [db EXCEPT !.error_file = <<Len(files) + 1>>]
                /\ exported' = Append(exported, [status |-> "success", message |-> "",
                                                 file |-> Len(files) + 1, seen |-> Seen(db)])
           ELSE /\ exported' = Append(exported, [status |-> "error",
                                                 message |-> res.message,
                                                 file |-> 0, seen |-> Seen(db)])
                /\ UNCHANGED <<db, files>>
    /\ UNCHANGED <<reqd, import_type, update_on_field, batch_size, hook_rejects,
                   csv_rows, store, next_id, queue, cache, starts, nstarts, ex,
                   handed, call, automap>>

(***************************************************************************)
(* The job: one document from its creation in Draft.                       *)
(***************************************************************************)
Init ==
    /\ reqd = {"age"}
    /\ \E tk \in {<<"Insert New Records", "">>,
                  <<"Update Existing Records", "">>,
                  <<"Insert and Update Records", "">>,
                  <<"Insert and Update Records", "Email">>} :
           import_type = tk[1] /\ update_on_field = tk[2]
    /\ batch_size \in {1, MaxBatch}
    /\ hook_rejects = {}
    /\ csv_rows \in SeqUpTo(JobRowKinds, MaxRows)
    /\ db \in {NewDoc(fm) : fm \in {<<>>, <<MapNoId>>, <<MapDated>>}}
    /\ store = InitialStore
    /\ next_id = 1
    /\ queue = 0
    /\ cache = NoSnapshot
    /\ starts = [s \in StartSlots |-> IdleStart]
    /\ nstarts = 0
    /\ ex = [e \in ExecIds |-> IdleExec]
    /\ handed = [o \in 0..(MaxRows - 1) |-> 0]
    /\ call = NoCall
    /\ files = <<>>
    /\ exported = <<>>
    /\ automap = NoAutoMap

Next ==
    \/ \E s \in StartSlots : StartLoad(s)
    \/ \E s \in StartSlots, m \in StartMappings : StartRun(s, m)
    \/ \E e \in ExecIds, exc \in {"none", "save"} : Begin(e, exc)
    \/ \E e \in ExecIds, exc \in {"none", "load"} : Load(e, exc)
    \/ \E e \in ExecIds, exc \in {"none", "save", "cache"}, fail \in 0..MaxRows :
          Chunk(e, exc, fail)
    \/ \E e \in ExecIds, exc \in {"none", "errfile"} : Finish(e, exc)
    \/ \E e \in ExecIds, exc \in {"none", "save"} : Fatal(e, exc)
    \/ \E e \in ExecIds : Return(e)

Spec == Init /\ [][Next]_vars

(***************************************************************************)
(* The job and its error export: export_error_rows may be called at any    *)
(* moment of the job's life.                                               *)
(***************************************************************************)
ExportInit ==
    /\ Init
    /\ import_type = "Insert New Records"
    /\ batch_size = 1
    /\ csv_rows \in SeqUpTo({RowDated, RowBadAge}, MaxRows)
    /\ db \in {NewDoc(<<MapNoId>>), NewDoc(<<MapDated>>)}

ExportNext == Next \/ Export

ExportSpec == ExportInit /\ [][ExportNext]_vars

(***************************************************************************)
(* Claims about the job (checked under Spec).                              *)
(***************************************************************************)
Terminal == {"Completed", "Partial Success", "Failed"}

\* the position of a status on Draft -> Queued -> In Progress -> terminal
Rank(st) ==
    CASE st = "Draft" -> 0
      [] st = "Queued" -> 1
      [] st = "In Progress" -> 2
      [] OTHER -> 3

\* the step is the body of start_import run by request s
StartStep(s) == starts[s].pc = "loaded" /\ starts'[s].pc = "idle"

\* C1: a start_import call on a job whose persisted status is not Draft
\* leaves the persisted status exactly as it was and enqueues no execution.
C1_StartOnNonDraftChangesNothing ==
    [][\A s \in StartSlots :
          (StartStep(s) /\ starts[s].status # "Draft" /\ db.status = starts[s].status)
              => (db'.status = db.status /\ queue' = queue)]_vars

\* C2: the persisted status only moves forward along
\* Draft -> Queued -> In Progress -> {Completed, Partial Success, Failed},
\* and once it is terminal it never changes again.
C2_StatusOnlyMovesForward ==
    [][/\ Rank(db'.status) >= Rank(db.status)
       /\ (db.status \in Terminal => db'.status = db.status)]_vars

\* C3: each chunk of the job's row set (named by its start offset) is handed
\* to insert_records at most once, over every start and every execution.
C3_ChunkHandedAtMostOnce ==
    \A o \in DOMAIN handed : handed[o] <= 1

\* C4: whenever the persisted status is terminal, the persisted
\* successful_records + failed_records equals the persisted total_records.
C4_TerminalCountersAddUp ==
    db.status \in Terminal =>
        db.successful_records + db.failed_records = db.total_records

\* C5: for every execution that ended with a final or failure snapshot, the
\* progress values of the snapshots written for it, from the Queued snapshot
\* on, are non-decreasing and the last one is 100.
C5_ProgressNonDecreasingEndsAt100 ==
    \A e \in ExecIds :
        (ex[e].pc = "done" /\ ex[e].written[Len(ex[e].written)].status \in Terminal) =>
            LET w == ex[e].written
            IN  /\ \A j \in 1..(Len(w) - 1) : w[j].progress <= w[j + 1].progress
                /\ w[Len(w)].progress = 100

\* C6: at normal completion the final status is Failed iff
\* failed_records = total_rows with total_rows > 0, Partial Success iff
\* 0 < failed_records < total_rows, and Completed iff failed_records = 0.
C6_FinalStatusRule ==
    \A e \in ExecIds :
        (ex[e].pc = "done" /\ ex[e].final_status # "") =>
            LET f == ex[e].failed_records
                t == ex[e].total_rows
                s == ex[e].final_status
            IN  /\ (s = "Failed") <=> (f = t /\ t > 0)
                /\ (s = "Partial Success") <=> (0 < f /\ f < t)
                /\ (s = "Completed") <=> (f = 0)

\* the fields a saved mapping maps some column to
MappingTargets(fm) ==
    IF fm = <<>> THEN {} ELSE {fm[1][h] : h \in DOMAIN fm[1]} \ {""}

\* C7: start_import moves the job to Queued and enqueues an execution only
\* if every required field of the target type is a target of the job's
\* field mapping.
C7_StartsOnlyWithRequiredMapped ==
    [][\A s \in StartSlots :
          (StartStep(s) /\ db'.status = "Queued" /\ queue' = queue + 1)
              => reqd \subseteq MappingTargets(db'.field_mapping)]_vars

\* the job is in Upsert mode and its key column is unspecified or unmapped
UpsertKeyUnusable ==
    /\ import_type = "Insert and Update Records"
    /\ \/ update_on_field = ""
       \/ db.field_mapping # <<>> /\ MappedUpdateField(db.field_mapping[1]) = ""

\* C8: for an Upsert job whose key column is unspecified or unmapped,
\* start_import fails and leaves the job in Draft with nothing enqueued, and
\* no row enters the failed-row list or failed_records because of the key.
C8_MissingKeyIsConfigurationError ==
    UpsertKeyUnusable =>
        /\ db.status = "Draft"
        /\ queue = 0
        /\ \A e \in ExecIds : \A j \in 1..Len(ex[e].all_failed_rows) :
               ex[e].all_failed_rows[j].error
                   \notin {NoKeyError, UnmappedKeyError(update_on_field)}

\* every row of the batch raises in its type coercion
AllFailCoercion(rows) ==
    rows # <<>> /\ \A j \in 1..Len(rows) : CoerceFails(rows[j]) # {}

\* the step hands a batch to insert_records for execution e
ChunkStep(e) == ex[e].pc = "chunk" /\ handed' # handed

\* C11: when every row of a batch fails type coercion, insert_records writes
\* nothing (the table and the identifiers are as before), returns
\* success_count 0 and one failed row per input row; an execution whose rows
\* all fail this way and that completes ends with status Failed.
C11_AllRowsFailCoercion ==
    /\ [][\A e \in ExecIds :
             (ChunkStep(e) /\ AllFailCoercion(Batch(ex[e]))) =>
                 /\ store' = store
                 /\ next_id' = next_id
                 /\ ex'[e].successful_records = ex[e].successful_records
                 /\ ex'[e].failed_records = ex[e].failed_records + Len(Batch(ex[e]))
                 /\ Len(ex'[e].all_failed_rows) =
                        Len(ex[e].all_failed_rows) + Len(Batch(ex[e]))]_vars
    /\ [](\A e \in ExecIds :
             (/\ ex[e].pc = "done"
              /\ ex[e].final_status # ""
              /\ AllFailCoercion(GetMappedData(ex[e].doc))) =>
                 (ex[e].final_status = "Failed" /\ ex[e].doc.status = "Failed"))

\* an execution of a two-row file whose rows all fail coercion has completed
C11_Witness ==
    \E e \in ExecIds :
        /\ ex[e].pc = "done"
        /\ ex[e].final_status = "Failed"
        /\ ex[e].total_rows = 2
        /\ AllFailCoercion(GetMappedData(ex[e].doc))
        /\ Len(ex[e].all_failed_rows) = 2
        /\ store = InitialStore

\* C12: when an exception escapes the body of process_import_queue, the
\* persisted status becomes Failed, error_log holds the exception text, a
\* snapshot with status Failed is written to the cache, and the execution
\* processes no further chunk.
C12_EscapedExceptionForcesFailed ==
    [][\A e \in ExecIds :
          /\ (ex[e].pc = "fatal" /\ ex'[e].pc = "done") =>
                 /\ db'.status = "Failed"
                 /\ db'.error_log = TextLog(ex[e].error)
                 /\ cache'.status = "Failed"
          /\ ex[e].pc = "fatal" => handed' = handed]_vars

\* C13: the durable state does not depend on the progress snapshot.  The
\* execution that loses no snapshot processes every row, persists counters
\* that add up to total_rows and the status of the counter rule; an
\* execution that differs from it only in a lost snapshot write (its only
\* exception is the cache's) persists the same.
C13_SnapshotLossLeavesDurableState ==
    \A e \in ExecIds :
        (ex[e].pc = "done" /\ ex[e].error = CacheError /\ ex[e].doc.status \in Terminal) =>
            /\ ex[e].doc.last_processed_row = ex[e].total_rows
            /\ ex[e].doc.successful_records + ex[e].doc.failed_records = ex[e].total_rows
            /\ ex[e].doc.status = FinalStatus(ex[e].doc.failed_records, ex[e].total_rows)

\* C18: within one execution the chunks are processed one after the other in
\* increasing offset order (0, batch_size, 2 * batch_size, ...), each once;
\* only a failure outside insert_records (a save, the cache, the file, the
\* error file) takes the execution to the except block, never a row error or
\* a statement error; an execution without such a failure reaches the end of
\* the row set and ends with the status of the counter rule.
C18_ChunksSequentialToTheEnd ==
    \A e \in ExecIds :
        /\ \A k \in 1..Len(ex[e].chunks) : ex[e].chunks[k] = (k - 1) * batch_size
        /\ ex[e].pc = "chunk" => ex[e].i = Len(ex[e].chunks) * batch_size
        /\ ex[e].pc = "fatal" =>
               ex[e].error \in {SaveError, CacheError, LoadError, ErrorFileError}
        /\ (ex[e].pc = "done" /\ ex[e].error = "") =>
               /\ Len(ex[e].chunks) * batch_size >= ex[e].total_rows
               /\ (Len(ex[e].chunks) - 1) * batch_size < ex[e].total_rows
               /\ ex[e].successful_records + ex[e].failed_records = ex[e].total_rows
               /\ ex[e].final_status =
                      FinalStatus(ex[e].failed_records, ex[e].total_rows)
               /\ ex[e].doc.status = ex[e].final_status

\* the step is a pass of the loop of execution e whose save and commit
\* (lines 455-456) succeeded
ChunkCommit(e) == ChunkStep(e) /\ ex'[e].error # SaveError

\* C19: at every per-chunk commit the persisted last_processed_row is the end
\* offset of the chunk, min(i + batch_size, total_rows), equals the persisted
\* successful_records + failed_records and is greater than at the previous
\* per-chunk commit of the execution; no other step of the job changes it (a
\* failure between commits leaves it at the last committed boundary); at
\* normal completion it equals total_records.
C19_LastProcessedRowAtChunkBoundary ==
    /\ [][\A e \in ExecIds :
             ChunkCommit(e) =>
                 /\ db'.last_processed_row =
                        Min(ex[e].i + batch_size, ex[e].total_rows)
                 /\ db'.last_processed_row =
                        db'.successful_records + db'.failed_records
                 /\ ex[e].chunks # <<>> =>
                        db'.last_processed_row > db.last_processed_row]_vars
    /\ [][(\A e \in ExecIds : ~ChunkCommit(e)) =>
             db'.last_processed_row = db.last_processed_row]_vars
    /\ [](\A e \in ExecIds :
             (ex[e].pc = "done" /\ ex[e].final_status # "") =>
                 ex[e].doc.last_processed_row = ex[e].doc.total_records)

\* the save of the second chunk raised: the execution ended in the except
\* block and last_processed_row is the end of the first chunk
C19_Witness ==
    \E e \in ExecIds :
        /\ ex[e].pc = "done"
        /\ ex[e].error = SaveError
        /\ ex[e].chunks = <<0, 1>>
        /\ db.status = "Failed"
        /\ db.last_processed_row = 1
        /\ db.total_records = 2

\* the snapshots an execution wrote after its chunks, in the order written
ChunkSnapshots(e) ==
    SelectSeq(ex[e].written, LAMBDA s : s.counted /\ s.status = "In Progress")

\* C20: the chunk snapshots of an execution are written in chunk order (the
\* k-th carries the progress and the running totals of the k-th chunk), and
\* of any two snapshots of the execution that carry the counters, the later
\* one's successful_records and failed_records are not smaller.
C20_SnapshotsInChunkOrder ==
    \A e \in ExecIds :
        LET w  == ex[e].written
            cs == ChunkSnapshots(e)
        IN  /\ Len(cs) <= Len(ex[e].chunks)
            /\ \A k \in 1..Len(cs) :
                   /\ cs[k].progress = Progress(ex[e].chunks[k], ex[e].total_rows)
                   /\ cs[k].successful_records + cs[k].failed_records =
                          Min(ex[e].chunks[k] + batch_size, ex[e].total_rows)
            /\ \A j, k \in 1..Len(w) :
                   (j < k /\ w[j].counted /\ w[k].counted) =>
                       /\ w[j].successful_records <= w[k].successful_records
                       /\ w[j].failed_records <= w[k].failed_records

\* an execution wrote the snapshots of two chunks, one row imported and one
\* row failed, and the final snapshot
C20_Witness ==
    \E e \in ExecIds :
        /\ ex[e].pc = "done" /\ ex[e].error = ""
        /\ Len(ChunkSnapshots(e)) = 2
        /\ ChunkSnapshots(e)[1].successful_records = 1
        /\ ChunkSnapshots(e)[2].failed_records = 1
        /\ ex[e].written[Len(ex[e].written)].progress = 100
        /\ ex[e].written[Len(ex[e].written)].counted

\* the step is a pass of the loop of execution e that wrote its snapshot
ChunkPublished(e) == ChunkStep(e) /\ ex'[e].pc = "chunk"

\* C21: the percent value of the snapshot written after a chunk is
\* floor(processed * 100 / total) clamped to 100, where processed is the
\* last_processed_row persisted for that chunk and total is total_rows.
C21_PercentOfRowsProcessed ==
    [][\A e \in ExecIds :
          ChunkPublished(e) =>
              cache'.progress =
                  Min(100, (db'.last_processed_row * 100) \div ex[e].total_rows)]_vars

\* C24: of two concurrent start_import calls on the same Draft job at most
\* one moves the job to Queued and enqueues an execution: a call that loaded
\* the job as Draft, and runs after another call has moved the job on, does
\* not move it to Queued again and enqueues nothing.
C24_OneOfTwoConcurrentStartsWins ==
    [][\A s \in StartSlots :
          (StartStep(s) /\ starts[s].status = "Draft" /\ db.status # "Draft")
              => (queue' = queue /\ ~(db.status # "Queued" /\ db'.status = "Queued"))]_vars

\* the entries the pass of the loop added to the failure list of execution e
NewFailures(e) ==
    SubSeq(ex'[e].all_failed_rows, Len(ex[e].all_failed_rows) + 1,
           Len(ex'[e].all_failed_rows))

\* C25: a row that insert_records returns in failed_rows for a statement
\* error was not written by the call: in the table the pass of the loop
\* leaves to be committed, the documents with the row's identifier are as
\* they were before the call.
C25_FailedRowsAreNotWritten ==
    [][\A e \in ExecIds :
          ChunkStep(e) =>
              \A k \in 1..Len(NewFailures(e)) :
                  LET r == NewFailures(e)[k]
                  IN  (r.error = StatementError /\ Truthy(Get(r.row, "name"))) =>
                          {d \in store' : d.name = Cstr(r.row["name"])} =
                              {d \in store : d.name = Cstr(r.row["name"])}]_vars

\* C27: in every error file generate_error_file produced, each data line has
\* exactly the columns of the header line (the fields of the first failed
\* row, then Error Message and Row Number), whatever mix of transformation
\* failures and statement failures the failure list holds, and the row
\* numbers are 1..n in the order of the failure list.
C27_ErrorFileLinesMatchHeader ==
    \A a \in 1..Len(files) :
        \A k \in 1..Len(files[a].content.lines) :
            /\ DOMAIN files[a].content.lines[k].cells = files[a].content.header
            /\ files[a].content.lines[k].number = k

(***************************************************************************)
(* Claims about export_error_rows (checked under ExportSpec).              *)
(***************************************************************************)
\* the step is a call of export_error_rows
ExportStep == exported' # exported

\* C14: the error files generated for one persisted error log, by any two
\* calls of export_error_rows and by the completion of the job, have the same
\* rows in the same order (row data, error message, row number), and a call
\* changes neither the error log nor the status of the job.
C14_ExportIsRepeatable ==
    /\ [](\A a, b \in 1..Len(files) :
             files[a].log = files[b].log => files[a].content = files[b].content)
    /\ [][ExportStep => (db'.status = db.status /\ db'.error_log = db.error_log)]_vars

\* a job completed with two failed rows and its error log was exported twice
C14_Witness ==
    \E a, b, c \in 1..Len(files) :
        /\ a < b /\ b < c
        /\ files[a].by = "completion" /\ files[b].by = "export" /\ files[c].by = "export"
        /\ files[a].log = files[b].log /\ files[b].log = files[c].log
        /\ Len(files[c].content.lines) = 2
        /\ db.status \in {"Failed", "Partial Success"}

\* C15: when the status of the job is neither Failed nor Partial Success, or
\* the job has no error log, export_error_rows returns an error, generates no
\* file and changes no field of the job.
C15_ExportRefused ==
    [][(/\ ExportStep
        /\ \/ db.status \notin {"Failed", "Partial Success"}
           \/ db.error_log.kind = "none") =>
           /\ exported'[Len(exported')].status = "error"
           /\ files' = files
           /\ db' = db]_vars

\* one call was refused for the status of the job, another for a Failed job
\* without an error log
C15_Witness ==
    \E k, l \in 1..Len(exported) :
        /\ exported[k].status = "error"
        /\ exported[k].seen.status \notin {"Failed", "Partial Success"}
        /\ exported[l].status = "error"
        /\ exported[l].seen.status = "Failed"
        /\ exported[l].seen.error_log.kind = "none"

\* C28: for every job whose status is Failed or Partial Success and whose
\* error log is not empty, a job forced to Failed by the except block of
\* process_import_queue included, export_error_rows returns the reference of
\* a generated error file and not an error.
C28_ExportSucceedsForEveryFailedJob ==
    [][(/\ ExportStep
        /\ db.status \in {"Failed", "Partial Success"}
        /\ db.error_log.kind # "none") =>
           /\ exported'[Len(exported')].status = "success"
           /\ exported'[Len(exported')].file \in 1..Len(files')]_vars

(***************************************************************************)
(* auto_map_and_validate (lines 576-618).  Header and field names are      *)
(* sequences of characters, so that normalize() is computed.               *)
(***************************************************************************)
W_name      == <<"n", "a", "m", "e">>
W_id        == <<"i", "d">>
W_ID        == <<"I", "D">>
W_owner     == <<"o", "w", "n", "e", "r">>
W_Owner     == <<"O", "w", "n", "e", "r">>
W_creation  == <<"c", "r", "e", "a", "t", "i", "o", "n">>
W_CreatedOn == <<"C", "r", "e", "a", "t", "e", "d", " ", "O", "n">>
W_modified  == <<"m", "o", "d", "i", "f", "i", "e", "d">>
W_LastModified == <<"L", "a", "s", "t", " ", "M", "o", "d", "i", "f", "i", "e", "d">>
W_modified_by == <<"m", "o", "d", "i", "f", "i", "e", "d", "_", "b", "y">>
W_ModifiedBy  == <<"M", "o", "d", "i", "f", "i", "e", "d", " ", "B", "y">>
W_first_name  == <<"f", "i", "r", "s", "t", "_", "n", "a", "m", "e">>
W_FirstName   == <<"F", "i", "r", "s", "t", " ", "N", "a", "m", "e">>
W_email     == <<"e", "m", "a", "i", "l">>
W_Email     == <<"E", "m", "a", "i", "l">>
W_title     == <<"t", "i", "t", "l", "e">>
W_Title     == <<"T", "i", "t", "l", "e">>
W_doc_title == <<"d", "o", "c", "_", "t", "i", "t", "l", "e">>
W_Phone     == <<"P", "h", "o", "n", "e">>

\* str.lower() on one character
LowerCase ==
    [A |-> "a", B |-> "b", C |-> "c", D |-> "d", E |-> "e", F |-> "f", G |-> "g",
     H |-> "h", I |-> "i", J |-> "j", K |-> "k", L |-> "l", M |-> "m", N |-> "n",
     O |-> "o", P |-> "p", Q |-> "q", R |-> "r", S |-> "s", T |-> "t", U |-> "u",
     V |-> "v", W |-> "w", X |-> "x", Y |-> "y", Z |-> "z"]

\* normalize (lines 595-596): s.lower().replace("_", " ").replace("-", " ")
normalize(s) ==
    [k \in 1..Len(s) |->
        LET c == IF s[k] \in DOMAIN LowerCase THEN LowerCase[s[k]] ELSE s[k]
        IN  IF c \in {"_", "-"} THEN " " ELSE c]

Field(fieldname, label, r) == [fieldname |-> fieldname, label |-> label, reqd |-> r]

\* the system fields get_detailed_doctype_fields appends (lines 340-344)
SystemFields ==
    <<Field(W_name, W_ID, FALSE), Field(W_owner, W_Owner, FALSE),
      Field(W_creation, W_CreatedOn, FALSE), Field(W_modified, W_LastModified, FALSE),
      Field(W_modified_by, W_ModifiedBy, FALSE)>>

\* get_detailed_doctype_fields (lines 332-346) for the fields of a record type
detailed_fields(fields) == fields \o SystemFields

\* the assignments to normalized_field_map, in order (lines 598-605): per
\* field its name and its label, then the two fixed entries
MapEntries(fields) ==
    LET df == detailed_fields(fields)
    IN  [k \in 1..(2 * Len(df)) |->
            IF k % 2 = 1
            THEN <<normalize(df[(k + 1) \div 2].fieldname), df[(k + 1) \div 2].fieldname>>
            ELSE <<normalize(df[k \div 2].label), df[k \div 2].fieldname>>]
        \o <<<<W_id, W_name>>, <<W_name, W_first_name>>>>

\* normalized_field_map.get(key, ""): the last assignment to the key wins
MapGet(entries, key) ==
    LET hits == {k \in 1..Len(entries) : entries[k][1] = key}
    IN  IF hits = {} THEN <<>>
        ELSE entries[CHOOSE k \in hits : \A m \in hits : m <= k][2]

\* auto_mapping (lines 607-610): header -> field name, "" when none matches
auto_mapping(fields, headers) ==
    [h \in {headers[k] : k \in 1..Len(headers)} |->
        MapGet(MapEntries(fields), normalize(h))]

\* required_fields (line 590), in schema order
RequiredOf(fields) ==
    LET req == SelectSeq(fields, LAMBDA f : f.reqd)
    IN  [k \in 1..Len(req) |-> req[k].fieldname]

\* unmapped_required (lines 612-613)
unmapped_required(fields, headers) ==
    SelectSeq(RequiredOf(fields),
              LAMBDA f : f \notin {auto_mapping(fields, headers)[h] :
                                      h \in DOMAIN auto_mapping(fields, headers)} \ {<<>>})

\* the record types the endpoint is called for
Schemas ==
    {<<Field(W_email, W_Email, TRUE), Field(W_first_name, W_FirstName, FALSE)>>,
     <<Field(W_title, W_Title, TRUE), Field(W_doc_title, W_Title, FALSE)>>,
     <<Field(W_email, W_Email, FALSE)>>}

\* the header cells a CSV file may have (get_csv_headers strips them)
HeaderNames == {W_name, W_email, W_Email, W_title, W_owner, W_Phone}

\* a Draft job whose file has been uploaded and not yet mapped
AutoMapInit ==
    /\ Init
    /\ import_type = "Insert New Records"
    /\ batch_size = 1
    /\ csv_rows = <<>>
    /\ db = NewDoc(<<>>)

\* the inputs of the call are chosen with the call
AutoMapCall ==
    /\ automap = NoAutoMap
    /\ \E fields \in Schemas, headers \in SeqUpTo(HeaderNames, MaxHeaders) :
          automap' = <<[fields |-> fields, headers |-> headers,
                        mapping |-> auto_mapping(fields, headers),
                        unmapped_required |-> unmapped_required(fields, headers)]>>
    /\ UNCHANGED <<reqd, import_type, update_on_field, batch_size, hook_rejects,
                   csv_rows, db, store, next_id, queue, cache, starts, nstarts, ex,
                   handed, call, files, exported>>

AutoMapNext == AutoMapCall

AutoMapSpec == AutoMapInit /\ [][AutoMapNext]_vars

(***************************************************************************)
(* Claims about auto_map_and_validate (checked under AutoMapSpec).         *)
(***************************************************************************)
\* the field names known for a record type: its schema fields and the system
\* fields
KnownNames(fields) ==
    {detailed_fields(fields)[k].fieldname : k \in 1..Len(detailed_fields(fields))}

HeaderSet(headers) == {headers[k] : k \in 1..Len(headers)}

\* C16: when every header exactly equals a known field name (a schema field
\* or name, owner, creation, modified, modified_by), the returned mapping
\* maps every header to itself.
C16_ExactHeadersMapToThemselves ==
    (automap # NoAutoMap /\ HeaderSet(automap[1].headers) \subseteq KnownNames(automap[1].fields))
        => \A h \in DOMAIN automap[1].mapping : automap[1].mapping[h] = h

\* C17: unmapped_required is empty if and only if the name of every required
\* field appears among the CSV headers.
C17_UnmappedRequiredEmptyIffNamesPresent ==
    automap # NoAutoMap =>
        (automap[1].unmapped_required = <<>>
            <=> \A k \in 1..Len(RequiredOf(automap[1].fields)) :
                    RequiredOf(automap[1].fields)[k] \in HeaderSet(automap[1].headers))

(***************************************************************************)
(* insert_records on its own: one call on a batch of mapped rows.          *)
(***************************************************************************)
WriterInit ==
    /\ reqd \in {{}, {"age"}, {"email", "age"}}
    /\ \E tk \in {<<"Insert New Records", "">>,
                  <<"Update Existing Records", "">>,
                  <<"Insert and Update Records", "">>,
                  <<"Insert and Update Records", "Email">>,
                  <<"Insert and Update Records", "Age">>} :
           import_type = tk[1] /\ update_on_field = tk[2]
    /\ batch_size = MaxBatchRows
    /\ hook_rejects \in {{}, {"b@x.com"}}
    /\ csv_rows \in SeqUpTo(RowKinds, MaxBatchRows)
    /\ db \in {NewDoc(<<m>>) : m \in {MapAll, MapNoId, MapNoEmail}}
    /\ store = InitialStore
    /\ next_id = 1
    /\ queue = 0
    /\ cache = NoSnapshot
    /\ starts = [s \in StartSlots |-> IdleStart]
    /\ nstarts = 0
    /\ ex = [e \in ExecIds |-> IdleExec]
    /\ handed = [o \in 0..(MaxRows - 1) |-> 0]
    /\ call = NoCall
    /\ files = <<>>
    /\ exported = <<>>
    /\ automap = NoAutoMap

\* doc.insert_records(batch): `fail` is the statement that raises, if any
WriterCall ==
    /\ call = NoCall
    /\ LET rows == GetMappedData(db)
       IN  \E fail \in 0..NumStatements(db, rows, store, next_id) :
              LET res == InsertRecords(db, rows, store, next_id, fail)
              IN  /\ call' = <<[rows |-> rows, before |-> store, fail |-> fail,
                                result |-> res]>>
                  /\ store' = res.store
                  /\ next_id' = res.next_id
    /\ UNCHANGED <<reqd, import_type, update_on_field, batch_size, hook_rejects,
                   csv_rows, db, queue, cache, starts, nstarts, ex, handed,
                   files, exported, automap>>

WriterNext == WriterCall

WriterSpec == WriterInit /\ [][WriterNext]_vars

(***************************************************************************)
(* Claims about insert_records (checked under WriterSpec).                 *)
(***************************************************************************)
\* the rows of the last call that passed step 1, as prepared
CallRecords == RecordsToProcess(call[1].rows)

\* r is the record `rec` with an identifier added or replaced
SameButName(r, rec) ==
    /\ DOMAIN r = (DOMAIN rec) \cup {"name"}
    /\ \A f \in (DOMAIN rec) \ {"name"} : r[f] = rec[f]

\* C9: when a bulk statement of an insert_records call raises, the call
\* returns success_count = 0, every row that passed the preparation is in
\* failed_rows with the statement's error text, and failed_rows has one entry
\* per row given to the call.
C9_StatementFailureFailsWholeCall ==
    (call # NoCall /\ call[1].fail > 0) =>
        LET res  == call[1].result
            recs == CallRecords
        IN  /\ res.success_count = 0
            /\ Len(res.failed_rows) = Len(call[1].rows)
            /\ \A j \in 1..Len(recs) :
                  Cardinality({k \in 1..Len(res.failed_rows) :
                                  /\ res.failed_rows[k].error = StatementError
                                  /\ \/ res.failed_rows[k].row = recs[j]
                                     \/ SameButName(res.failed_rows[k].row, recs[j])})
                  >= Cardinality({k \in 1..Len(recs) : recs[k] = recs[j]})

\* a call in which the second of several statements raised, on a batch that
\* also holds a row that failed the preparation
C9_Witness ==
    /\ call # NoCall
    /\ call[1].fail = 2
    /\ Len(CallRecords) >= 2
    /\ Len(CallRecords) < Len(call[1].rows)

\* the key field of an Upsert call and the key of a record
CallKeyField == MappedUpdateField(db.field_mapping[1])
KeyInTable(rec) ==
    /\ Truthy(Get(rec, CallKeyField))
    /\ \E d \in call[1].before : d[CallKeyField] = Cstr(Get(rec, CallKeyField))

UpsertCall ==
    /\ call # NoCall
    /\ import_type = "Insert and Update Records"
    /\ update_on_field # ""
    /\ CallKeyField # ""
    /\ CallRecords # <<>>

InSeq(x, seq) == \E k \in 1..Len(seq) : seq[k] = x

NullRequired(row) ==
    SelectSeq(required_fields, LAMBDA f : Get(Convert(row), f) = NoneV)

\* the messages of the required-field check (line 142)
MissingMessages ==
    {MissingError(SelectSeq(required_fields, LAMBDA f : f \in S)) :
        S \in (SUBSET reqd) \ {{}}}

\* C22: a row whose coercion succeeds fails the required-field check exactly
\* when some required field is null or missing after coercion, and the error
\* names all those fields in one message; a row whose required fields all
\* hold non-null coerced values (the integer 0 included) passes the check.
C22_RequiredCheckIffNull ==
    call # NoCall =>
        \A j \in 1..Len(call[1].rows) :
            LET row == call[1].rows[j]
                failed == call[1].result.failed_rows
            IN  CoerceFails(row) = {} =>
                    /\ NullRequired(row) # <<>> =>
                           \E k \in 1..Len(failed) :
                               /\ failed[k].row = row
                               /\ failed[k].error = MissingError(NullRequired(row))
                    /\ NullRequired(row) = <<>> =>
                           \A k \in 1..Len(failed) :
                               failed[k].row = row => failed[k].error \notin MissingMessages

\* C23: in "Update Existing Records" mode every row counted in success_count
\* carried an identifier (name) and was part of an UPDATE statement the call
\* executed, the statements taking sub-chunks of at most UPDATE_CHUNK_SIZE
\* rows; a row without an identifier is never counted as successful.
C23_UpdateOnlyCountsIdentifiedRows ==
    (call # NoCall /\ import_type = "Update Existing Records") =>
        LET res   == call[1].result
            recs  == CallRecords
            named == {j \in 1..Len(recs) : Truthy(Get(recs[j], "name"))}
        IN  /\ res.success_count <= Cardinality(named)
            /\ res.success_count > 0 =>
                   \A j \in named :
                       \E s \in 1..Len(res.executed) :
                           /\ res.executed[s].op = "UPDATE"
                           /\ InSeq(recs[j], res.executed[s].recs)
            /\ \A s \in 1..Len(res.executed) :
                   /\ res.executed[s].op = "UPDATE"
                   /\ Len(res.executed[s].recs) <= UPDATE_CHUNK_SIZE

\* the table holds at most one document per non-empty value of the key field
OnePerKey(st) ==
    \A d1, d2 \in st :
        (d1[CallKeyField] = d2[CallKeyField] /\ d1[CallKeyField] # "") => d1 = d2

\* C26: in Upsert mode, when the table holds at most one document per key
\* value before an insert_records call, it holds at most one per key value
\* after the call: rows of one batch that share a key value not yet in the
\* table give at most one inserted document.
C26_UpsertKeepsKeysUnique ==
    (UpsertCall /\ OnePerKey(call[1].before)) => OnePerKey(store)

====
